---- MODULE Spec2Model ----
(***************************************************************************)
(* Model of the bookings listing handler (getHandler / getBookings):       *)
(* status/time predicate, scoping filters, five visibility sub-queries,    *)
(* two recurring aggregates, deduplication by uid, enrichment query,       *)
(* attendee redaction and offset pagination.                               *)
(***************************************************************************)
EXTENDS Integers, Sequences, FiniteSets, TLC

VARIABLES store, req, pc, qs, q, set, plain, resp, muts, page, out, received, calls

vars == <<store, req, pc, qs, q, set, plain, resp, muts, page, out, received, calls>>

(***************************************************************************)
(* Bounds of the model.                                                    *)
(***************************************************************************)
NumBookings == 3
MaxTake == 2
MaxSkip == 1
MaxMutations == 1
\* follow-up calls of one caller
MaxPages == 4
\* getHandler calls in flight at the same time
NumCalls == 2

(***************************************************************************)
(* Program constants.                                                      *)
(***************************************************************************)
\* `new Date()`: the execution time the endTime bounds are compared with.
Now == 2
\* input.limit ?? 10
DefaultTake == 10
\* input.cursor ?? 0
DefaultSkip == 0
\* nextCursor = null
Null == -1
\* limit / cursor absent from the input
Absent == -2

\* a null id (eventTypeId, teamId, parentId)
NoId == 0
\* recurringEventId = null
NoSeries == "none"

BookingStatus == {"ACCEPTED", "CANCELLED", "REJECTED", "PENDING", "AWAITING_HOST"}
Tags == {"upcoming", "recurring", "past", "cancelled", "unconfirmed"}

BookingIds == 1..NumBookings
\* start times; endTime = startTime + 1 falls before, at and after Now
Times == (Now - 2)..Now

(***************************************************************************)
(* The session user (ctx.user).                                            *)
(***************************************************************************)
user == [id |-> 1, email |-> "viewer"]

(***************************************************************************)
(* The relations the where-clauses traverse.  They are not changed by the  *)
(* handler.  Team 11 is a child of organization 10, team 12 stands alone.  *)
(* The session user is ADMIN of 10 and a plain MEMBER of 12; user 2 is a   *)
(* member of team 11, user 3 a member of team 12 and OWNER of team 13.     *)
(***************************************************************************)
TeamIds == {10, 11, 12, 13}
TeamParent == [t \in TeamIds |-> IF t = 11 THEN 10 ELSE NoId]
Memberships ==
    { [userId |-> 1, teamId |-> 10, role |-> "ADMIN"],
      [userId |-> 1, teamId |-> 12, role |-> "MEMBER"],
      [userId |-> 2, teamId |-> 11, role |-> "MEMBER"],
      [userId |-> 3, teamId |-> 12, role |-> "MEMBER"],
      [userId |-> 3, teamId |-> 13, role |-> "OWNER"] }

\* 1: personal event type of the session user
\* 2: personal event type of user 2
\* 3: personal event type of user 3, seats, attendees hidden
\* 4: personal event type of the session user, seats, attendees hidden
\* 5: personal event type of the session user, seats, attendees shown
\* 6: team event type of team 11 (host: user 2)
\* 7: managed child of event type 6 (user 2)
\* 8: team event type of team 12
EventTypeIds == 1..8
EventTypes ==
    [e \in EventTypeIds |->
        [ teamId   |-> IF e = 6 THEN 11 ELSE IF e = 8 THEN 12 ELSE NoId,
          parentId |-> IF e = 7 THEN 6 ELSE NoId,
          seatsShowAttendees |-> (e = 5),
          hosts    |-> IF e = 6 THEN {2} ELSE IF e = 8 THEN {3} ELSE {},
          users    |-> IF e \in {1, 4, 5} THEN {1}
                       ELSE IF e \in {2, 7} THEN {2}
                       ELSE IF e = 3 THEN {3} ELSE {} ] ]

\* members: { some: { userId: user.id, role: { in: ["ADMIN", "OWNER"] } } }
IsAdminOf(uid, t) ==
    \E m \in Memberships :
        m.userId = uid /\ m.teamId = t /\ m.role \in {"ADMIN", "OWNER"}

(***************************************************************************)
(* bookingListingFilters[status]: the time/status where-clause.            *)
(***************************************************************************)
\* the status filter with lt where `past` has lte
PassedBookingsStatusFilterLt(tag, b) ==
    CASE tag = "upcoming" ->
            /\ b.endTime >= Now
            /\ \/ /\ b.recurringEventId # NoSeries
                  /\ b.status = "ACCEPTED"
               \/ /\ b.recurringEventId = NoSeries
                  /\ b.status \notin {"CANCELLED", "REJECTED"}
      [] tag = "recurring" ->
            /\ b.endTime >= Now
            /\ ~(b.recurringEventId = NoSeries)
            /\ b.status \notin {"CANCELLED", "REJECTED"}
      [] tag = "past" ->
            /\ b.endTime < Now
            /\ ~(b.status = "CANCELLED")
            /\ ~(b.status = "REJECTED")
      [] tag = "cancelled" ->
            \/ b.status = "CANCELLED"
            \/ b.status = "REJECTED"
      [] tag = "unconfirmed" ->
            /\ b.endTime >= Now
            /\ b.status = "PENDING"

PassedBookingsStatusFilter(tag, b) ==
    CASE tag = "upcoming" ->
            /\ b.endTime >= Now
            /\ \/ /\ b.recurringEventId # NoSeries
                  /\ b.status = "ACCEPTED"
               \/ /\ b.recurringEventId = NoSeries
                  /\ b.status \notin {"CANCELLED", "REJECTED"}
      [] tag = "recurring" ->
            /\ b.endTime >= Now
            /\ ~(b.recurringEventId = NoSeries)
            /\ b.status \notin {"CANCELLED", "REJECTED"}
      [] tag = "past" ->
            /\ b.endTime <= Now
            /\ ~(b.status = "CANCELLED")
            /\ ~(b.status = "REJECTED")
      [] tag = "cancelled" ->
            \/ b.status = "CANCELLED"
            \/ b.status = "REJECTED"
      [] tag = "unconfirmed" ->
            /\ b.endTime >= Now
            /\ b.status = "PENDING"

\* bookingListingOrderby[status]
BookingListingOrderby(tag) ==
    IF tag \in {"past", "cancelled"} THEN "desc" ELSE "asc"

(***************************************************************************)
(* bookingWhereInputFilters and filtersCombined: the scoping filters.      *)
(* filters.keys is Object.keys(filters); "status" is always among them.    *)
(***************************************************************************)
HasEventType(b) == b.eventTypeId # NoId

BookingWhereInputFilters(key, filters, b) ==
    CASE key = "teamIds" ->
            /\ HasEventType(b)
            /\ EventTypes[b.eventTypeId].teamId # NoId
            /\ EventTypes[b.eventTypeId].teamId \in filters.teamIds
      [] key = "userIds" ->
            \/ /\ HasEventType(b)
               /\ \E h \in EventTypes[b.eventTypeId].hosts : h \in filters.userIds
            \/ b.userId \in filters.userIds
            \/ /\ HasEventType(b)
               /\ \E u \in EventTypes[b.eventTypeId].users : u \in filters.userIds
      [] key = "eventTypeIds" ->
            /\ HasEventType(b)
            /\ b.eventTypeId \in filters.eventTypeIds

\* the keys bookingWhereInputFilters has an entry for; the others map to
\* undefined and are dropped by .filter(Boolean)
WhereInputKeys == {"teamIds", "userIds", "eventTypeIds"}

\* filtersCombined that maps every key of bookingWhereInputFilters, supplied or not
FiltersCombinedAllKeys(filters, b) ==
    \A key \in WhereInputKeys : BookingWhereInputFilters(key, filters, b)

FiltersCombined(filters, b) ==
    \A key \in filters.keys :
        key \in WhereInputKeys => BookingWhereInputFilters(key, filters, b)

\* AND: [passedBookingsStatusFilter, ...filtersCombined]
CommonWhere(filters, b) ==
    /\ PassedBookingsStatusFilter(filters.status, b)
    /\ FiltersCombined(filters, b)

(***************************************************************************)
(* The where-clauses of the five visibility sub-queries.                   *)
(***************************************************************************)
UserIdVisible(b) == b.userId = user.id

WhereUserId(filters, b) ==
    /\ UserIdVisible(b)
    /\ CommonWhere(filters, b)

AttendeesVisible(b) == \E a \in b.attendees : a = user.email

WhereAttendees(filters, b) ==
    /\ AttendeesVisible(b)
    /\ CommonWhere(filters, b)

\* team of an event type, and the team of its parent event type
TeamOf(e) == IF e = NoId THEN NoId ELSE EventTypes[e].teamId
ParentOf(e) == IF e = NoId THEN NoId ELSE EventTypes[e].parentId
OrgOf(t) == IF t = NoId THEN NoId ELSE TeamParent[t]

TeamEventsVisible(b) ==
    \/ /\ OrgOf(TeamOf(b.eventTypeId)) # NoId
       /\ IsAdminOf(user.id, OrgOf(TeamOf(b.eventTypeId)))
    \/ /\ TeamOf(b.eventTypeId) # NoId
       /\ IsAdminOf(user.id, TeamOf(b.eventTypeId))
    \/ /\ TeamOf(ParentOf(b.eventTypeId)) # NoId
       /\ IsAdminOf(user.id, TeamOf(ParentOf(b.eventTypeId)))
    \/ /\ OrgOf(TeamOf(ParentOf(b.eventTypeId))) # NoId
       /\ IsAdminOf(user.id, OrgOf(TeamOf(ParentOf(b.eventTypeId))))

WhereTeamEvents(filters, b) ==
    /\ TeamEventsVisible(b)
    /\ CommonWhere(filters, b)

TeamUsersPersonalVisible(b) ==
    /\ \E m \in Memberships : m.userId = b.userId /\ TeamParent[m.teamId] > 0
    /\ \/ \E m \in Memberships :
             /\ m.userId = b.userId
             /\ TeamParent[m.teamId] # NoId
             /\ IsAdminOf(user.id, TeamParent[m.teamId])
       \/ \E m \in Memberships :
             /\ m.userId = b.userId
             /\ IsAdminOf(user.id, m.teamId)
    /\ HasEventType(b) /\ EventTypes[b.eventTypeId].teamId = NoId
    /\ HasEventType(b) /\ EventTypes[b.eventTypeId].parentId = NoId

WhereTeamUsersPersonalEvents(filters, b) ==
    /\ TeamUsersPersonalVisible(b)
    /\ CommonWhere(filters, b)

SeatReferenceVisible(b) == \E s \in b.seatsReferences : s = user.email

WhereSeatReference(filters, b) ==
    /\ SeatReferenceVisible(b)
    /\ CommonWhere(filters, b)

\* what sub-query i asks of a booking besides the AND of status and filters
PathVisible(i, b) ==
    CASE i = 1 -> UserIdVisible(b)
      [] i = 2 -> AttendeesVisible(b)
      [] i = 3 -> TeamEventsVisible(b)
      [] i = 4 -> TeamUsersPersonalVisible(b)
      [] i = 5 -> SeatReferenceVisible(b)

\* the five sub-queries in the order of the Promise.all array
VisibilityWhere(i, filters, b) ==
    CASE i = 1 -> WhereUserId(filters, b)
      [] i = 2 -> WhereAttendees(filters, b)
      [] i = 3 -> WhereTeamEvents(filters, b)
      [] i = 4 -> WhereTeamUsersPersonalEvents(filters, b)
      [] i = 5 -> WhereSeatReference(filters, b)

(***************************************************************************)
(* prisma.booking.findMany: rows matching, ordered by startTime, then      *)
(* skip / take.  Rows with equal startTime come in an order the store      *)
(* chooses, so a query has a set of possible results.                      *)
(***************************************************************************)
Min2(a, b) == IF a < b THEN a ELSE b

Perms(S) ==
    { f \in [1..Cardinality(S) -> S] :
        \A i, j \in 1..Cardinality(S) : i # j => f[i] # f[j] }

IsSorted(s, orderBy) ==
    \A i \in 1..(Len(s) - 1) :
        IF orderBy = "asc"
        THEN s[i].startTime <= s[i + 1].startTime
        ELSE s[i].startTime >= s[i + 1].startTime

OrderBy(S, orderBy) == { s \in Perms(S) : IsSorted(s, orderBy) }

SkipTake(s, take, skip) == SubSeq(s, skip + 1, Min2(Len(s), skip + take))

\* the scalar fields a findMany without select returns
Row(b) ==
    [ id |-> b.id, uid |-> b.uid, userId |-> b.userId,
      eventTypeId |-> b.eventTypeId, status |-> b.status,
      startTime |-> b.startTime, endTime |-> b.endTime,
      recurringEventId |-> b.recurringEventId ]

\* BookingsQuery with take where the code has take + 1
BookingsQueryNoOverfetch(i, st, filters, orderBy, take, skip) ==
    { SkipTake(s, take, skip) :
        s \in OrderBy({ Row(st[k]) : k \in { k \in DOMAIN st :
                          VisibilityWhere(i, filters, st[k]) } }, orderBy) }

\* sub-query i: where, orderBy, take: take + 1, skip
BookingsQuery(i, st, filters, orderBy, take, skip) ==
    { SkipTake(s, take + 1, skip) :
        s \in OrderBy({ Row(st[k]) : k \in { k \in DOMAIN st :
                          VisibilityWhere(i, filters, st[k]) } }, orderBy) }

(***************************************************************************)
(* The two groupBy queries over the session user's bookings of a series.   *)
(* groupBy has no orderBy: the groups come in an order the store chooses.  *)
(***************************************************************************)
OwnedRecurring(st) ==
    { k \in DOMAIN st :
        st[k].recurringEventId # NoSeries /\ st[k].userId = user.id }

MinOf(S) == CHOOSE x \in S : \A y \in S : x <= y

RecurringInfoBasicGroups(st) ==
    { [ recurringEventId |-> r,
        count |-> Cardinality({ k \in OwnedRecurring(st) :
                                  st[k].recurringEventId = r }),
        minStartTime |-> MinOf({ st[k].startTime : k \in
                          { k \in OwnedRecurring(st) :
                              st[k].recurringEventId = r } }) ] :
      r \in { st[k].recurringEventId : k \in OwnedRecurring(st) } }

RecurringInfoExtendedGroups(st) ==
    { [ recurringEventId |-> st[k].recurringEventId,
        status |-> st[k].status,
        startTime |-> st[k].startTime ] : k \in OwnedRecurring(st) }

RecurringInfoBasicQuery(st) == Perms(RecurringInfoBasicGroups(st))
RecurringInfoExtendedQuery(st) == Perms(RecurringInfoExtendedGroups(st))

\* the reduce over recurringInfoExtended: prev[curr.status].push(curr.startTime)
RECURSIVE StatusBucket(_, _, _)
StatusBucket(ext, r, s) ==
    IF ext = <<>> THEN <<>>
    ELSE IF Head(ext).recurringEventId = r /\ Head(ext).status = s
         THEN <<Head(ext).startTime>> \o StatusBucket(Tail(ext), r, s)
         ELSE StatusBucket(Tail(ext), r, s)

RecurringInfo(basic, ext) ==
    [ i \in 1..Len(basic) |->
        [ recurringEventId |-> basic[i].recurringEventId,
          count |-> basic[i].count,
          firstDate |-> basic[i].minStartTime,
          bookings |-> [ s \in BookingStatus |->
                           StatusBucket(ext, basic[i].recurringEventId, s) ] ] ]

(***************************************************************************)
(* getUniqueBookings over the module-level `set`: keeps the first row of   *)
(* each uid, records every uid, and clears the set before it returns.      *)
(***************************************************************************)
RECURSIVE UniqueFilter(_, _)
UniqueFilter(arr, seen) ==
    IF arr = <<>> THEN <<>>
    ELSE IF Head(arr).uid \in seen
         THEN UniqueFilter(Tail(arr), seen)
         ELSE <<Head(arr)>> \o UniqueFilter(Tail(arr), seen \cup {Head(arr).uid})

\* getUniqueBookings that keeps every row
GetUniqueBookingsKeepAll(arr, seen) == arr

GetUniqueBookings(arr, seen) == UniqueFilter(arr, seen)

\* bookingsQueryUserId.concat(...)... in the fixed path order
Concat(r) == r[1] \o r[2] \o r[3] \o r[4] \o r[5]

(***************************************************************************)
(* The enrichment query and the map over its rows.                         *)
(***************************************************************************)
\* seatsReferences: { where: { attendee: { email: user.email } } }
SelectSeatsReferences(b) == { s \in b.seatsReferences : s = user.email }

\* bookingSelect; attendees come with bookingMinimalSelect
BookingSelect(b) ==
    [ id |-> b.id, uid |-> b.uid, userId |-> b.userId,
      eventTypeId |-> b.eventTypeId, status |-> b.status,
      startTime |-> b.startTime, endTime |-> b.endTime,
      recurringEventId |-> b.recurringEventId,
      attendees |-> b.attendees,
      seatsReferences |-> SelectSeatsReferences(b) ]

\* booking.eventType?.seatsShowAttendees
SeatsShowAttendees(e) == IF e = NoId THEN FALSE ELSE EventTypes[e].seatsShowAttendees

FilterAttendees(b) ==
    IF b.seatsReferences # {} /\ ~SeatsShowAttendees(b.eventTypeId)
    THEN [b EXCEPT !.attendees = { a \in b.attendees : a = user.email }]
    ELSE b

\* EnrichQuery without its orderBy: the rows come in an order the store chooses
EnrichQueryUnordered(st, plainBookings, orderBy) ==
    Perms({ BookingSelect(st[k]) : k \in { k \in DOMAIN st :
              \E n \in 1..Len(plainBookings) : plainBookings[n].id = st[k].id } })

\* EnrichQuery without its where: every row of the table
EnrichQueryNoWhere(st, plainBookings, orderBy) ==
    OrderBy({ BookingSelect(st[k]) : k \in DOMAIN st }, orderBy)

\* where: { id: { in: plainBookings.map((booking) => booking.id) } }, orderBy
EnrichQuery(st, plainBookings, orderBy) ==
    OrderBy({ BookingSelect(st[k]) : k \in { k \in DOMAIN st :
                \E n \in 1..Len(plainBookings) : plainBookings[n].id = st[k].id } },
            orderBy)

MapBookings(rows) == [ n \in 1..Len(rows) |-> FilterAttendees(rows[n]) ]

(***************************************************************************)
(* getHandler: take / skip defaults and nextCursor.                        *)
(***************************************************************************)
Take(input) == IF input.limit = Absent THEN DefaultTake ELSE input.limit
Skip(input) == IF input.cursor = Absent THEN DefaultSkip ELSE input.cursor

\* NextCursor with >= where the code has >
NextCursorAtLeast(bookingsFetched, take, skip) ==
    IF bookingsFetched >= take THEN skip + bookingsFetched ELSE Null

\* nextCursor left at skip where the code adds bookingsFetched to it
NextCursorNotAdvanced(bookingsFetched, take, skip) ==
    IF bookingsFetched > take THEN skip ELSE Null

NextCursor(bookingsFetched, take, skip) ==
    IF bookingsFetched > take THEN skip + bookingsFetched ELSE Null

(***************************************************************************)
(* State.                                                                  *)
(*   store  the bookings table with the attendee and seat relations        *)
(*   req    the input of the call in progress                              *)
(*   pc     idle, fanout, enrich, done, failed (applied: see ApplyWhere)   *)
(*   qs, q  state and result of the seven queries of the Promise.all       *)
(*   set    the module-level Set of getUniqueBookings                      *)
(*   plain  plainBookings                                                  *)
(*   resp   what the caller receives                                       *)
(*   muts   how many times other actors changed a booking during the call  *)
(*   page   how many follow-up calls the caller has made                   *)
(*   out    result of a function applied on its own                        *)
(*   received   ids of the bookings the caller has received so far         *)
(*   calls  getHandler calls in flight at the same time (SpecCalls)        *)
(***************************************************************************)
Queries == 1..7
Visibility == 1..5

NoResp ==
    [ kind |-> "none", bookings |-> <<>>, recurringInfo |-> <<>>,
      nextCursor |-> Null ]

Failure ==
    [ kind |-> "error", bookings |-> <<>>, recurringInfo |-> <<>>,
      nextCursor |-> Null ]

Idle(st, r) ==
    /\ store = st
    /\ req = r
    /\ pc = "idle"
    /\ qs = [i \in Queries |-> "none"]
    /\ q = [i \in Queries |-> <<>>]
    /\ set = {}
    /\ plain = <<>>
    /\ resp = NoResp
    /\ muts = 0
    /\ page = 0
    /\ out = <<>>
    /\ received = {}
    /\ calls = <<>>

\* the possible results of query i of the Promise.all array on store st
QueryResults(i, st, r) ==
    CASE i \in Visibility ->
            BookingsQuery(i, st, r.filters,
                          BookingListingOrderby(r.filters.status), Take(r), Skip(r))
      [] i = 6 -> RecurringInfoBasicQuery(st)
      [] i = 7 -> RecurringInfoExtendedQuery(st)

\* Promise.allSettled in the place of Promise.all: resolves once no query is
\* pending, a rejected query leaving its result empty
PromiseAllSettled(states) ==
    IF \A i \in Queries : states[i] \in {"ok", "failed"} THEN "resolved"
    ELSE "pending"

\* Promise.all over the seven queries
PromiseAll(states) ==
    IF \E i \in Queries : states[i] = "failed" THEN "rejected"
    ELSE IF \A i \in Queries : states[i] = "ok" THEN "resolved"
    ELSE "pending"

Response(rows, info, r) ==
    [ kind |-> "ok",
      bookings |-> MapBookings(rows),
      recurringInfo |-> info,
      nextCursor |-> NextCursor(Len(rows), Take(r), Skip(r)) ]

(***************************************************************************)
(* getHandler as one step, on a store nobody changes during the call.      *)
(***************************************************************************)
GetHandler ==
    /\ pc = "idle"
    /\ \E r1 \in QueryResults(1, store, req), r2 \in QueryResults(2, store, req),
          r3 \in QueryResults(3, store, req), r4 \in QueryResults(4, store, req),
          r5 \in QueryResults(5, store, req), r6 \in QueryResults(6, store, req),
          r7 \in QueryResults(7, store, req) :
         LET res == <<r1, r2, r3, r4, r5, r6, r7>>
             pl  == GetUniqueBookings(Concat(res), set)
         IN  \E rows \in EnrichQuery(store, pl,
                                     BookingListingOrderby(req.filters.status)) :
                /\ q' = res
                /\ qs' = [i \in Queries |-> "ok"]
                /\ plain' = pl
                /\ set' = {}
                /\ resp' = Response(rows, RecurringInfo(r6, r7), req)
                /\ received' = received \cup { rows[n].id : n \in 1..Len(rows) }
                /\ pc' = "done"
    /\ UNCHANGED <<store, req, muts, page, out, calls>>

\* the caller asks for the next page with the cursor it was given
NextPage ==
    /\ pc = "done"
    /\ resp.nextCursor # Null
    /\ page < MaxPages
    /\ req' = [req EXCEPT !.cursor = resp.nextCursor]
    /\ pc' = "idle"
    /\ qs' = [i \in Queries |-> "none"]
    /\ q' = [i \in Queries |-> <<>>]
    /\ plain' = <<>>
    /\ resp' = NoResp
    /\ page' = page + 1
    /\ UNCHANGED <<store, set, muts, out, received, calls>>

(***************************************************************************)
(* getHandler step by step, with other actors changing bookings and        *)
(* queries failing.                                                        *)
(***************************************************************************)
Start ==
    /\ pc = "idle"
    /\ pc' = "fanout"
    /\ qs' = [i \in Queries |-> "pending"]
    /\ UNCHANGED <<store, req, q, set, plain, resp, muts, page, out, received, calls>>

Query(i) ==
    /\ pc = "fanout"
    /\ PromiseAll(qs) = "pending"
    /\ qs[i] = "pending"
    /\ \E r \in QueryResults(i, store, req) : q' = [q EXCEPT ![i] = r]
    /\ qs' = [qs EXCEPT ![i] = "ok"]
    /\ UNCHANGED <<store, req, pc, set, plain, resp, muts, page, out, received, calls>>

\* query i rejects; when that rejects the Promise.all, the await throws and
\* getBookings and getHandler throw with it: the results that came in are lost
QueryFail(i) ==
    /\ pc = "fanout"
    /\ PromiseAll(qs) = "pending"
    /\ qs[i] = "pending"
    /\ IF PromiseAll([qs EXCEPT ![i] = "failed"]) = "rejected"
       THEN /\ pc' = "failed"
            /\ resp' = Failure
            /\ qs' = [j \in Queries |-> IF j = i THEN "failed" ELSE "none"]
            /\ q' = [j \in Queries |-> <<>>]
       ELSE /\ qs' = [qs EXCEPT ![i] = "failed"]
            /\ UNCHANGED <<pc, resp, q>>
    /\ UNCHANGED <<store, req, set, plain, muts, page, out, received, calls>>

\* the synchronous code after the await: recurringInfo, plainBookings
Join ==
    /\ pc = "fanout"
    /\ PromiseAll(qs) = "resolved"
    /\ plain' = GetUniqueBookings(Concat(q), set)
    /\ set' = {}
    /\ resp' = [NoResp EXCEPT !.recurringInfo = RecurringInfo(q[6], q[7])]
    /\ pc' = "enrich"
    /\ UNCHANGED <<store, req, qs, q, muts, page, out, received, calls>>

Enrich ==
    /\ pc = "enrich"
    /\ \E rows \in EnrichQuery(store, plain,
                               BookingListingOrderby(req.filters.status)) :
          /\ resp' = Response(rows, resp.recurringInfo, req)
          /\ received' = received \cup { rows[n].id : n \in 1..Len(rows) }
    /\ pc' = "done"
    /\ UNCHANGED <<store, req, qs, q, set, plain, muts, page, out, calls>>

\* another actor confirms, cancels or rejects a booking while the call runs
Mutate(k, s) ==
    /\ pc \in {"fanout", "enrich"}
    /\ muts < MaxMutations
    /\ store[k].status # s
    /\ store' = [store EXCEPT ![k].status = s]
    /\ muts' = muts + 1
    /\ UNCHANGED <<req, pc, qs, q, set, plain, resp, page, out, received, calls>>

(***************************************************************************)
(* Initial stores and inputs.  A booking is drawn from a set of profiles:  *)
(* who owns it, its event type, attendees and seats (AccessKinds), its     *)
(* status, start time and series.  Booking ids are labels, so stores that  *)
(* differ by a renaming of the ids are drawn once (profiles in order).     *)
(***************************************************************************)
AccessKinds ==
    << \* 1: owned by the session user
       [ userId |-> 1, eventTypeId |-> 1,
         attendees |-> {"other"}, seatsReferences |-> {} ],
       \* 2: the session user attends
       [ userId |-> 3, eventTypeId |-> 3,
         attendees |-> {"viewer", "other"}, seatsReferences |-> {} ],
       \* 3: owned, seats held by others, attendees hidden
       [ userId |-> 1, eventTypeId |-> 4,
         attendees |-> {"other", "third"}, seatsReferences |-> {"other", "third"} ],
       \* 4: the session user holds a seat, attendees hidden
       [ userId |-> 3, eventTypeId |-> 3,
         attendees |-> {"viewer", "other"}, seatsReferences |-> {"viewer", "other"} ],
       \* 5: owned and the session user holds a seat, attendees hidden
       [ userId |-> 1, eventTypeId |-> 4,
         attendees |-> {"viewer", "other"}, seatsReferences |-> {"viewer", "other"} ],
       \* 6: team event of a team of the session user's organization
       [ userId |-> 2, eventTypeId |-> 6,
         attendees |-> {"other"}, seatsReferences |-> {} ],
       \* 7: personal event of a member of that team
       [ userId |-> 2, eventTypeId |-> 2,
         attendees |-> {"third"}, seatsReferences |-> {} ],
       \* 8: nothing links it to the session user
       [ userId |-> 3, eventTypeId |-> 8,
         attendees |-> {"other"}, seatsReferences |-> {} ],
       \* 9: owned, seats held by others and by the session user, attendees shown
       [ userId |-> 1, eventTypeId |-> 5,
         attendees |-> {"viewer", "other", "third"},
         seatsReferences |-> {"viewer", "other", "third"} ],
       \* 10: managed event, child of a team event type
       [ userId |-> 2, eventTypeId |-> 7,
         attendees |-> {"third"}, seatsReferences |-> {} ],
       \* 11: owned, no event type
       [ userId |-> 1, eventTypeId |-> NoId,
         attendees |-> {"other"}, seatsReferences |-> {} ] >>

Series == {"r1", "r2"}

MkBooking(k, p) ==
    [ id |-> k, uid |-> 100 + k,
      userId |-> AccessKinds[p.a].userId,
      eventTypeId |-> AccessKinds[p.a].eventTypeId,
      status |-> p.status,
      startTime |-> p.startTime, endTime |-> p.startTime + 1,
      recurringEventId |-> p.series,
      attendees |-> AccessKinds[p.a].attendees,
      seatsReferences |-> AccessKinds[p.a].seatsReferences ]

StatusOrd ==
    [ s \in BookingStatus |->
        CASE s = "ACCEPTED" -> 0 [] s = "CANCELLED" -> 1 [] s = "REJECTED" -> 2
          [] s = "PENDING" -> 3 [] s = "AWAITING_HOST" -> 4 ]

SeriesOrd(r) == IF r = NoSeries THEN 0 ELSE IF r = "r1" THEN 1 ELSE 2

Code(p) == ((p.a * 8 + StatusOrd[p.status]) * 8 + p.startTime) * 4 + SeriesOrd(p.series)

Stores(P) ==
    { [k \in BookingIds |-> MkBooking(k, f[k])] :
        f \in { f \in [BookingIds -> P] :
                  \A k \in 1..(NumBookings - 1) : Code(f[k]) <= Code(f[k + 1]) } }

Profiles(kinds, statuses, times, series) ==
    [ a : kinds, status : statuses, startTime : times, series : series ]

Input(tag, keys, teamIds, userIds, eventTypeIds, limit, cursor) ==
    [ filters |-> [ status |-> tag, keys |-> {"status"} \cup keys,
                    teamIds |-> teamIds, userIds |-> userIds,
                    eventTypeIds |-> eventTypeIds ],
      limit |-> limit, cursor |-> cursor ]

Limits == {Absent} \cup 1..MaxTake
Cursors == {Absent} \cup 0..MaxSkip

(***************************************************************************)
(* Spec: calls and follow-up calls on a store that does not change.  At    *)
(* most two bookings of a store start at the same time.                    *)
(***************************************************************************)
Init ==
    \E st \in Stores(Profiles({1, 3, 4, 5, 6}, {"ACCEPTED"}, Times, {NoSeries})),
       tag \in {"upcoming", "past"}, limit \in Limits, cursor \in Cursors :
        /\ \A t \in Times :
              Cardinality({ k \in BookingIds : st[k].startTime = t }) <= 2
        /\ Idle(st, Input(tag, {}, {}, {}, {}, limit, cursor))

Next == GetHandler \/ NextPage

Spec == Init /\ [][Next]_vars

(***************************************************************************)
(* SpecFilter, SpecScope: the where-clauses of the five sub-queries        *)
(* applied to a sample booking (every booking of the store is the sample). *)
(***************************************************************************)
ApplyWhere ==
    /\ pc = "idle"
    /\ out' = [ i \in Visibility |->
                  { k \in BookingIds : VisibilityWhere(i, req.filters, store[k]) } ]
    /\ pc' = "applied"
    /\ UNCHANGED <<store, req, qs, q, set, plain, resp, muts, page, received, calls>>

Sample(p) == [k \in BookingIds |-> MkBooking(k, p)]

InitFilter ==
    \E p \in Profiles({5, 6, 7, 8}, BookingStatus, Times, {NoSeries, "r1"}),
       tag \in Tags :
        Idle(Sample(p), Input(tag, {}, {}, {}, {}, Absent, Absent))

SpecFilter == InitFilter /\ [][ApplyWhere]_vars

\* a scoping filter is left out, or supplied with a list of ids
TeamIdsChoices == { {}, {11}, {12, 13} }
UserIdsChoices == { {}, {1}, {2, 3} }
EventTypeIdsChoices == { {}, {1, 4}, {6} }

InitScope ==
    \E p \in Profiles(1..Len(AccessKinds), {"ACCEPTED"}, Times, {NoSeries}),
       keys \in SUBSET WhereInputKeys,
       teamIds \in TeamIdsChoices, userIds \in UserIdsChoices,
       eventTypeIds \in EventTypeIdsChoices :
        /\ "teamIds" \notin keys => teamIds = {}
        /\ "userIds" \notin keys => userIds = {}
        /\ "eventTypeIds" \notin keys => eventTypeIds = {}
        /\ Idle(Sample(p),
                Input("upcoming", keys, teamIds, userIds, eventTypeIds, Absent, Absent))

SpecScope == InitScope /\ [][ApplyWhere]_vars

(***************************************************************************)
(* SpecRec: calls on stores with recurring series.  The occurrences of a   *)
(* series that one user owns start at different times.                     *)
(***************************************************************************)
InitRec ==
    \E st \in Stores(Profiles({1, 2}, {"ACCEPTED", "CANCELLED"}, Times, Series)) :
        /\ \A k, l \in BookingIds :
              ( /\ k # l
                /\ st[k].recurringEventId = st[l].recurringEventId
                /\ st[k].userId = st[l].userId ) => st[k].startTime # st[l].startTime
        /\ Idle(st, Input("upcoming", {}, {}, {}, {}, Absent, Absent))

SpecRec == InitRec /\ [][GetHandler]_vars

(***************************************************************************)
(* SpecConc: one call step by step, while other actors change bookings     *)
(* and queries fail.                                                       *)
(***************************************************************************)
InitConc ==
    \E st \in Stores(Profiles({1, 4}, {"ACCEPTED"}, {Now - 1}, {NoSeries})),
       tag \in {"upcoming", "cancelled"}, keys \in {{}, {"eventTypeIds"}} :
        Idle(st, Input(tag, keys, {}, {}, IF keys = {} THEN {} ELSE {1},
                       Absent, Absent))

NextConc ==
    \/ Start
    \/ \E i \in Queries : Query(i)
    \/ \E i \in Queries : QueryFail(i)
    \/ Join
    \/ Enrich
    \/ \E k \in BookingIds, s \in {"ACCEPTED", "CANCELLED"} : Mutate(k, s)

SpecConc == InitConc /\ [][NextConc]_vars

(***************************************************************************)
(* SpecCalls: several getHandler calls in flight at the same time on one   *)
(* store.  A call is suspended at its two awaits (the Promise.all and the  *)
(* enrichment query); the code between two awaits runs without another     *)
(* call running in between, getUniqueBookings included: it has no await.   *)
(***************************************************************************)
Calls == 1..NumCalls

\* `const set = new Set()`: the one Set object, made when the module loads
ModuleSet == "module"

\* the Set object getUniqueBookings uses in call c: `set` is not a local of
\* the function, it names the module's object in every call
SetOf(c) == ModuleSet

NoCall(r) ==
    [ pc |-> "idle", req |-> r, q |-> [i \in Queries |-> <<>>],
      plain |-> <<>>, dedupSet |-> "none", bookings |-> <<>> ]

\* call c issues the seven queries and waits for the Promise.all
CallStart(c) ==
    /\ calls[c].pc = "idle"
    /\ calls' = [calls EXCEPT ![c].pc = "fanout"]
    /\ UNCHANGED <<store, req, pc, qs, q, set, plain, resp, muts, page, out, received>>

\* the Promise.all of call c resolves: plainBookings, then the call waits
\* for the enrichment query
CallJoin(c) ==
    /\ calls[c].pc = "fanout"
    /\ \E r1 \in QueryResults(1, store, calls[c].req),
          r2 \in QueryResults(2, store, calls[c].req),
          r3 \in QueryResults(3, store, calls[c].req),
          r4 \in QueryResults(4, store, calls[c].req),
          r5 \in QueryResults(5, store, calls[c].req),
          r6 \in QueryResults(6, store, calls[c].req),
          r7 \in QueryResults(7, store, calls[c].req) :
         LET res == <<r1, r2, r3, r4, r5, r6, r7>> IN
         calls' = [calls EXCEPT ![c].pc = "enrich",
                                ![c].q = res,
                                ![c].plain = GetUniqueBookings(Concat(res), set),
                                ![c].dedupSet = SetOf(c)]
    /\ set' = {}
    /\ UNCHANGED <<store, req, pc, qs, q, plain, resp, muts, page, out, received>>

\* the enrichment query of call c resolves and the call returns
CallEnrich(c) ==
    /\ calls[c].pc = "enrich"
    /\ \E rows \in EnrichQuery(store, calls[c].plain,
                               BookingListingOrderby(calls[c].req.filters.status)) :
          calls' = [calls EXCEPT ![c].pc = "done",
                                 ![c].bookings = MapBookings(rows)]
    /\ UNCHANGED <<store, req, pc, qs, q, set, plain, resp, muts, page, out, received>>

\* stores whose bookings start one after the other: booking k of kind
\* kinds[k] starts at Now - 2 + k, so the first has ended at Now and counts
\* as past and as upcoming, and the others are upcoming
Timeline(kinds) ==
    [ k \in DOMAIN kinds |->
        MkBooking(k, [ a |-> kinds[k], status |-> "ACCEPTED",
                       startTime |-> Now - 2 + k, series |-> NoSeries ]) ]

InitCalls ==
    \E kinds \in [BookingIds -> {1, 5, 8}],
       tags \in [Calls -> {"upcoming", "past"}] :
        /\ store = Timeline(kinds)
        /\ req = Input("upcoming", {}, {}, {}, {}, Absent, Absent)
        /\ pc = "idle"
        /\ qs = [i \in Queries |-> "none"]
        /\ q = [i \in Queries |-> <<>>]
        /\ set = {}
        /\ plain = <<>>
        /\ resp = NoResp
        /\ muts = 0
        /\ page = 0
        /\ out = <<>>
        /\ received = {}
        /\ calls = [ c \in Calls |->
                       NoCall(Input(tags[c], {}, {}, {}, {}, Absent, Absent)) ]

NextCalls == \E c \in Calls : CallStart(c) \/ CallJoin(c) \/ CallEnrich(c)

SpecCalls == InitCalls /\ [][NextCalls]_vars

(***************************************************************************)
(* SpecPages: a caller that starts at cursor 0 and follows nextCursor, on  *)
(* a store that does not change and whose bookings start one after the     *)
(* other, so that every query has one possible result.                     *)
(***************************************************************************)
PageBookingIds == 1..(NumBookings + 1)

InitPages ==
    \E kinds \in [PageBookingIds -> {1, 2, 5, 8}],
       tag \in {"upcoming", "past"}, limit \in Limits, cursor \in {Absent, 0} :
        Idle(Timeline(kinds), Input(tag, {}, {}, {}, {}, limit, cursor))

SpecPages == InitPages /\ [][Next]_vars

(***************************************************************************)
(* SpecFollow: the same caller, where the handler answers every call (the  *)
(* store answers each query) and the caller asks for the next page as long *)
(* as it is given a cursor.                                                *)
(***************************************************************************)
InitFollow ==
    \E kinds \in [BookingIds -> {1, 2, 5}], limit \in Limits :
        Idle(Timeline(kinds), Input("upcoming", {}, {}, {}, {}, limit, 0))

SpecFollow ==
    InitFollow /\ [][Next]_vars /\ WF_vars(GetHandler) /\ WF_vars(NextPage)

(***************************************************************************)
(* Properties of a call on an unchanging store (Spec).                     *)
(***************************************************************************)
Range(s) == { s[n] : n \in 1..Len(s) }

\* the uids sub-query i returned
SurfacedBy(i) == { q[i][n].uid : n \in 1..Len(q[i]) }

\* the uids two or more of the five sub-queries returned
MultiPath ==
    { u \in UNION { SurfacedBy(i) : i \in Visibility } :
        \E i, j \in Visibility : i # j /\ u \in SurfacedBy(i) /\ u \in SurfacedBy(j) }

Occurrences(s, u) == Cardinality({ n \in 1..Len(s) : s[n].uid = u })

\* C2: a booking returned by two or more of the five sub-queries appears
\* exactly once in plainBookings and exactly once in the final bookings list,
\* and no two entries of either list share a uid.
C2_ExactlyOnce ==
    pc = "done" =>
        /\ \A u \in MultiPath :
              Occurrences(plain, u) = 1 /\ Occurrences(resp.bookings, u) = 1
        /\ \A m, n \in 1..Len(plain) : m # n => plain[m].uid # plain[n].uid
        /\ \A m, n \in 1..Len(resp.bookings) :
              m # n => resp.bookings[m].uid # resp.bookings[n].uid

\* a booking the owner, attendee and seat-holder sub-queries all returned is
\* in the response
C2_Witness ==
    /\ pc = "done"
    /\ \E u \in SurfacedBy(1) \cap SurfacedBy(2) \cap SurfacedBy(5) :
          Occurrences(resp.bookings, u) = 1
    /\ Len(Concat(q)) > Len(plain)

\* C3: a returned booking that has a seat reference (held by anyone) and
\* whose event type hides attendees carries at most one attendee, the
\* session user.
C3_Redacted ==
    pc = "done" =>
        \A n \in 1..Len(resp.bookings) :
            LET b == resp.bookings[n] IN
            (store[b.id].seatsReferences # {} /\ ~SeatsShowAttendees(b.eventTypeId))
                => /\ Cardinality(b.attendees) <= 1
                   /\ \A a \in b.attendees : a = user.email

\* C4: nextCursor is null exactly when count <= take, and skip + count
\* otherwise (take: limit, default 10; skip: cursor, default 0).
C4_NextCursor ==
    pc = "done" =>
        LET take  == IF req.limit = Absent THEN DefaultTake ELSE req.limit
            skip  == IF req.cursor = Absent THEN DefaultSkip ELSE req.cursor
            count == Len(resp.bookings)
        IN  /\ (resp.nextCursor = Null) <=> (count <= take)
            /\ count > take => resp.nextCursor = skip + count

\* a page at a positive offset with more than take bookings, and a page with
\* exactly take bookings
C4_Witness ==
    /\ pc = "done"
    /\ req.limit # Absent /\ req.cursor # Absent /\ req.cursor > 0
    /\ Len(resp.bookings) > req.limit
    /\ resp.nextCursor = req.cursor + Len(resp.bookings)

\* C6: the final bookings list is ordered by startTime, ascending for
\* upcoming, recurring and unconfirmed, descending for past and cancelled.
C6_Sorted ==
    pc = "done" =>
        \A m, n \in 1..Len(resp.bookings) :
            m < n =>
                IF req.filters.status \in {"upcoming", "recurring", "unconfirmed"}
                THEN resp.bookings[m].startTime <= resp.bookings[n].startTime
                ELSE resp.bookings[m].startTime >= resp.bookings[n].startTime

\* a descending page whose concatenated sub-query results were out of order
C6_Witness ==
    /\ pc = "done"
    /\ req.filters.status = "past"
    /\ Len(resp.bookings) >= 2
    /\ resp.bookings[1].startTime > resp.bookings[Len(resp.bookings)].startTime
    /\ \E m, n \in 1..Len(plain) : m < n /\ plain[m].startTime < plain[n].startTime

\* the bookings some visibility path shows the session user and the
\* `upcoming` predicate accepts
UpcomingVisible ==
    { k \in BookingIds :
        \E i \in Visibility :
            VisibilityWhere(i, [req.filters EXCEPT !.status = "upcoming"], store[k]) }

\* C8 (scenario D): with exactly three bookings matching `upcoming`, limit 2
\* and cursor 0 return all three with nextCursor 3, and the call with
\* cursor 3 returns no booking and nextCursor null.
C8_ScenarioD ==
    ( /\ pc = "done"
      /\ req.filters.status = "upcoming"
      /\ req.limit = 2
      /\ Cardinality(UpcomingVisible) = 3 ) =>
        /\ req.cursor = 0 =>
              /\ Len(resp.bookings) = 3
              /\ { resp.bookings[n].id : n \in 1..3 } = UpcomingVisible
              /\ resp.nextCursor = 3
        /\ req.cursor = 3 =>
              /\ Len(resp.bookings) = 0
              /\ resp.nextCursor = Null

\* the follow-up call of scenario D has answered
C8_Witness ==
    /\ pc = "done"
    /\ page = 1
    /\ req.filters.status = "upcoming"
    /\ req.limit = 2
    /\ req.cursor = 3
    /\ Cardinality(UpcomingVisible) = 3
    /\ resp.bookings = <<>>
    /\ resp.nextCursor = Null

(***************************************************************************)
(* Properties of the where-clauses (SpecFilter, SpecScope).                *)
(***************************************************************************)
\* the table of the five status tags
C5_Table(tag, b) ==
    CASE tag = "upcoming" ->
            b.endTime >= Now /\
            ( (b.recurringEventId # NoSeries /\ b.status = "ACCEPTED") \/
              (b.recurringEventId = NoSeries /\ b.status \notin {"CANCELLED", "REJECTED"}) )
      [] tag = "recurring" ->
            b.endTime >= Now /\ b.recurringEventId # NoSeries /\
            b.status \notin {"CANCELLED", "REJECTED"}
      [] tag = "past" ->
            b.endTime <= Now /\ b.status \notin {"CANCELLED", "REJECTED"}
      [] tag = "cancelled" -> b.status \in {"CANCELLED", "REJECTED"}
      [] tag = "unconfirmed" -> b.endTime >= Now /\ b.status = "PENDING"

C10_Scoping(filters, b) ==
    /\ "teamIds" \in filters.keys =>
          /\ b.eventTypeId # NoId
          /\ EventTypes[b.eventTypeId].teamId # NoId
          /\ EventTypes[b.eventTypeId].teamId \in filters.teamIds
    /\ "userIds" \in filters.keys =>
          \/ b.userId \in filters.userIds
          \/ /\ b.eventTypeId # NoId
             /\ (EventTypes[b.eventTypeId].hosts \cup EventTypes[b.eventTypeId].users)
                   \cap filters.userIds # {}
    /\ "eventTypeIds" \in filters.keys =>
          /\ b.eventTypeId # NoId
          /\ b.eventTypeId \in filters.eventTypeIds

\* C10: in every visibility sub-query a booking passes exactly when it
\* satisfies the predicate of each supplied filter kind; a kind left out of
\* the request and the `status` key add no constraint.
C10_ScopingFilters ==
    pc = "applied" =>
        \A i \in Visibility, k \in BookingIds :
            (k \in out[i]) <=>
                /\ PathVisible(i, store[k])
                /\ PassedBookingsStatusFilter(req.filters.status, store[k])
                /\ C10_Scoping(req.filters, store[k])

\* userIds supplied, teamIds and eventTypeIds left out: an owned booking of
\* an event type without a team passes
C10_Witness ==
    /\ pc = "applied"
    /\ req.filters.keys = {"status", "userIds"}
    /\ req.filters.userIds = {1}
    /\ EventTypes[store[1].eventTypeId].teamId = NoId
    /\ 1 \in out[1]

(***************************************************************************)
(* Properties of recurringInfo (SpecRec).                                  *)
(***************************************************************************)
OwnedOf(r) ==
    { k \in BookingIds : store[k].recurringEventId = r /\ store[k].userId = user.id }

\* C9: for every series with a booking the session user owns, recurringInfo
\* holds exactly one summary, with the count of the owned occurrences, their
\* earliest start time, and for each of the five statuses the start times of
\* the owned occurrences of that status in time order, one per occurrence.
C9_RecurringInfo ==
    pc = "done" =>
        \A r \in Series :
            OwnedOf(r) # {} =>
                /\ Cardinality({ n \in 1..Len(resp.recurringInfo) :
                                   resp.recurringInfo[n].recurringEventId = r }) = 1
                /\ \A n \in 1..Len(resp.recurringInfo) :
                      resp.recurringInfo[n].recurringEventId = r =>
                          LET info == resp.recurringInfo[n] IN
                          /\ info.count = Cardinality(OwnedOf(r))
                          /\ \A k \in OwnedOf(r) : info.firstDate <= store[k].startTime
                          /\ \E k \in OwnedOf(r) : info.firstDate = store[k].startTime
                          /\ DOMAIN info.bookings = BookingStatus
                          /\ \A s \in BookingStatus :
                                LET bucket == info.bookings[s]
                                    occ == { k \in OwnedOf(r) : store[k].status = s }
                                IN  /\ Len(bucket) = Cardinality(occ)
                                    /\ Range(bucket) = { store[k].startTime : k \in occ }
                                    /\ \A m \in 1..(Len(bucket) - 1) :
                                          bucket[m] <= bucket[m + 1]

(***************************************************************************)
(* Properties of a call among writes and failures (SpecConc).              *)
(***************************************************************************)
\* C1 as stated: every returned booking is, in the store the enrichment
\* query read, shown by one of the five paths and accepted by the status
\* predicate and the scoping filters.
C1_VisibleAtResponse ==
    pc = "done" =>
        \A n \in 1..Len(resp.bookings) :
            \E i \in Visibility :
                VisibilityWhere(i, req.filters, store[resp.bookings[n].id])

\* the booking as sub-query i read it
AsRead(row) == [store[row.id] EXCEPT !.status = row.status]

\* C1 amended: every returned booking was returned by one of the five
\* sub-queries, and in the store that sub-query read its path showed it and
\* the status predicate and the scoping filters accepted it.
C1_VisibleWhenSurfaced ==
    pc = "done" =>
        \A n \in 1..Len(resp.bookings) :
            \E i \in Visibility : \E m \in 1..Len(q[i]) :
                /\ q[i][m].id = resp.bookings[n].id
                /\ PathVisible(i, AsRead(q[i][m]))
                /\ C5_Table(req.filters.status, AsRead(q[i][m]))
                /\ C10_Scoping(req.filters, AsRead(q[i][m]))

\* a booking was cancelled after the sub-queries read it and is returned
C1_Witness ==
    /\ pc = "done"
    /\ muts > 0
    /\ req.filters.status = "upcoming"
    /\ \E n \in 1..Len(resp.bookings) :
          /\ resp.bookings[n].status = "CANCELLED"
          /\ \E m \in 1..Len(q[1]) :
                q[1][m].id = resp.bookings[n].id /\ q[1][m].status = "ACCEPTED"

\* C7: when one of the seven queries fails the call fails and the caller
\* receives no bookings, no recurringInfo and no nextCursor; a response is
\* built only from seven results; a failed query is not issued again and a
\* failed call produces nothing later.
C7_AllOrNothing ==
    /\ [] ( /\ (\E i \in Queries : qs[i] = "failed") => (pc = "failed" /\ resp = Failure)
            /\ (pc \in {"enrich", "done"} \/ resp.kind = "ok") =>
                  \A i \in Queries : qs[i] = "ok" )
    /\ [][ /\ \A i \in Queries : qs[i] = "failed" => qs'[i] = "failed"
           /\ pc = "failed" => (pc' = "failed" /\ resp' = resp) ]_vars

\* the team-events query failed: the call has failed and carries nothing
C7_Witness ==
    /\ pc = "failed"
    /\ qs[3] = "failed"
    /\ resp = Failure
    /\ resp.bookings = <<>>

(***************************************************************************)
(* Properties of calls in flight at the same time (SpecCalls).             *)
(***************************************************************************)
\* the calls that ran getUniqueBookings
Deduped == { c \in Calls : calls[c].pc \in {"enrich", "done"} }

\* C11: the set used for deduplication is request-scoped: no two calls run
\* their deduplication on the same Set object, the set is empty whenever a
\* deduplication starts, and the deduplicated sequence of a call is the
\* first occurrence of each uid among that call's own five sub-query results.
C11_RequestScoped ==
    /\ \A c, d \in Deduped : c # d => calls[c].dedupSet # calls[d].dedupSet
    /\ set = {}
    /\ \A c \in Deduped :
          calls[c].plain = GetUniqueBookings(Concat(calls[c].q), {})

(***************************************************************************)
(* Properties of a caller following nextCursor (SpecPages, SpecFollow).    *)
(***************************************************************************)
\* the bookings one of the five paths shows and the status predicate and
\* the scoping filters accept
Owed ==
    { k \in DOMAIN store :
        /\ \E i \in Visibility : PathVisible(i, store[k])
        /\ C5_Table(req.filters.status, store[k])
        /\ C10_Scoping(req.filters, store[k]) }

\* C12: a caller that starts at cursor 0 with limit >= 1 and follows
\* nextCursor until it is null has received, in one page or another, every
\* booking that one of the five paths shows and the predicate accepts.
C12_Complete ==
    (pc = "done" /\ resp.nextCursor = Null /\ Take(req) >= 1) =>
        Owed \subseteq received

\* C13: with limit >= 1 every non-null nextCursor is greater than the
\* cursor of the call that produced it, and a caller that follows
\* nextCursor from cursor 0 comes to a response whose nextCursor is null.
C13_Terminates ==
    /\ [] ( (pc = "done" /\ resp.nextCursor # Null /\ Take(req) >= 1) =>
               resp.nextCursor > Skip(req) )
    /\ <> (pc = "done" /\ resp.nextCursor = Null)

\* the second call of a caller, at a cursor past every booking, is the one
\* that returns a null nextCursor
C13_Witness ==
    /\ pc = "done"
    /\ page = 1
    /\ Skip(req) >= Cardinality(DOMAIN store)
    /\ Take(req) >= 1
    /\ resp.bookings = <<>>
    /\ resp.nextCursor = Null

====
